---- MODULE Spec2Model ----
(***************************************************************************)
(* A model of reddit_scraper.py: the RedditScraper collection engine.      *)
(*                                                                         *)
(* The process state is the scraper object (processed_post_ids), the       *)
(* locals of scrape_data (the loop position, the two batches, the window), *)
(* and the two CSV files on disk, which outlive the process.  The remote   *)
(* search service, comment retrieval failures, write failures and process  *)
(* crashes are the environment: they are nondeterministic choices.         *)
(***************************************************************************)
EXTENDS Integers, Sequences, FiniteSets, TLC

(***************************************************************************)
(* Bounds of the model.                                                    *)
(***************************************************************************)
\* how many entries of CONFIG['subreddits'] are used
NumSubreddits == 2
\* how many events the environment contributes to a behaviour: a candidate
\* that a search yields, a failure (of a search, of a comment retrieval, of a
\* write), a kill of the process, a start of the program after the first
MaxEvents == 3
\* the reply count of the most discussed thread of the remote source
ManyReplies == 11

(***************************************************************************)
(* CONFIG (lines 15-84).                                                   *)
(***************************************************************************)
AllSubreddits ==
    <<"IndiaSpeaks", "India", "IndiaNews", "IndianLeft", "DesiPolitics",
      "Bharat", "PoliticalAnalysisIndia", "ElectionFever">>

subreddits == SubSeq(AllSubreddits, 1, NumSubreddits)

\* the first two entries of CONFIG['search_keywords']
search_keywords == <<"Lok Sabha election 2024", "Lok Sabha 2024">>

limit_posts_per_query == 1000

comment_limit_per_post == 10

Pairs == (1..Len(subreddits)) \X (1..Len(search_keywords))

(***************************************************************************)
(* Calendar arithmetic of datetime / relativedelta / strftime.             *)
(***************************************************************************)
Min(a, b) == IF a <= b THEN a ELSE b

IsLeap(y) == (y % 4 = 0 /\ y % 100 # 0) \/ y % 400 = 0

DaysInMonth(y, m) ==
    IF m = 2 THEN (IF IsLeap(y) THEN 29 ELSE 28)
    ELSE IF m \in {4, 6, 9, 11} THEN 30 ELSE 31

\* days from 1970-01-01 to the civil date y-m-d (proleptic Gregorian)
DaysFromCivil(y, m, d) ==
    LET yy  == IF m <= 2 THEN y - 1 ELSE y
        era == yy \div 400
        yoe == yy - era * 400
        mp  == IF m > 2 THEN m - 3 ELSE m + 9
        doy == (153 * mp + 2) \div 5 + d - 1
        doe == yoe * 365 + yoe \div 4 - yoe \div 100 + doy
    IN  era * 146097 + doe - 719468

\* the civil date <<y, m, d>> of a day number
CivilFromDays(z) ==
    LET zz  == z + 719468
        era == zz \div 146097
        doe == zz - era * 146097
        yoe == (doe - doe \div 1460 + doe \div 36524 - doe \div 146096) \div 365
        doy == doe - (365 * yoe + yoe \div 4 - yoe \div 100)
        mp  == (5 * doy + 2) \div 153
        d   == doy - (153 * mp + 2) \div 5 + 1
        m   == IF mp < 10 THEN mp + 3 ELSE mp - 9
        y   == yoe + era * 400
    IN  << (IF m <= 2 THEN y + 1 ELSE y), m, d >>

\* date + relativedelta(months=n): the month moves, the year carries, the day
\* is clamped to the length of the target month
AddMonths(date, n) ==
    LET total == date.year * 12 + (date.month - 1) + n
        y     == total \div 12
        m     == (total % 12) + 1
    IN  [year |-> y, month |-> m, day |-> Min(date.day, DaysInMonth(y, m))]

\* datetime.timestamp() of a naive datetime at midnight: the datetime is read
\* as local time; utcoffset is the local zone's offset east of UTC, in seconds
NaiveTimestamp(date, utcoffset) ==
    DaysFromCivil(date.year, date.month, date.day) * 86400 - utcoffset

\* datetime.fromtimestamp(ts, timezone.utc).strftime('%Y-%m-%d %H:%M:%S'),
\* as the fields <<Y, m, d, H, M, S>> of the text
Strftime(ts) ==
    LET days == ts \div 86400
        secs == ts % 86400
        ymd  == CivilFromDays(days)
    IN  << ymd[1], ymd[2], ymd[3], secs \div 3600, (secs % 3600) \div 60, secs % 60 >>

election_date == [year |-> 2024, month |-> 6, day |-> 4]

start_date == AddMonths(election_date, -5)

end_date == AddMonths(election_date, 2)

\* the offsets (seconds east of UTC) of the machines the program is run on
UtcOffsets == {0, 19800}

(***************************************************************************)
(* The remote source: the threads a search may yield.  A thread handle     *)
(* exposes id, created_utc and its flattened reply list (lines 188-208,    *)
(* 135-136); title, selftext, score, ... are copied into the row verbatim  *)
(* and are left out.  Identifiers are base-36 texts; one of them consists  *)
(* of decimal digits only.                                                 *)
(***************************************************************************)
PostIds == {"1900000", "1dxk3ab", "18uv9qz", "1ejz0aa"}

created_utc(id) ==
    CASE id = "1900000" -> 1704326400      \* 2024-01-04 00:00:00 UTC
      [] id = "1dxk3ab" -> 1717502400      \* 2024-06-04 12:00:00 UTC
      [] id = "18uv9qz" -> 1703980800      \* 2023-12-31 00:00:00 UTC
      [] id = "1ejz0aa" -> 1722729601      \* 2024-08-04 00:00:01 UTC

num_replies(id) ==
    CASE id = "1900000" -> ManyReplies
      [] id = "1dxk3ab" -> 2
      [] OTHER -> 0

\* how many further replies the "load more replies" placeholder of a thread
\* stands for
more_replies(id) ==
    CASE id = "1dxk3ab" -> 2
      [] OTHER -> 0

\* a reply is known by its thread and its position in the complete reply list
Comment(id, i) == [kind |-> "comment", id |-> <<id, i>>, replies |-> <<>>]

\* post.comments as it arrives with the thread: the replies that were loaded,
\* then a MoreComments placeholder when the thread has further replies
comment_forest(id) ==
    [i \in 1..num_replies(id) |-> Comment(id, i)]
        \o (IF more_replies(id) > 0
            THEN << [kind |-> "more", id |-> <<id, 0>>,
                     replies |-> [j \in 1..more_replies(id) |->
                                     Comment(id, num_replies(id) + j)]] >>
            ELSE <<>>)

\* comments.replace_more(limit=n) of praw: the first n placeholders are
\* replaced by the replies they stand for (one request each), the others are
\* removed from the forest; limit=0 removes every placeholder
RECURSIVE replace_more(_, _)
replace_more(forest, limit) ==
    IF forest = <<>> THEN <<>>
    ELSE IF Head(forest).kind = "comment"
    THEN <<Head(forest)>> \o replace_more(Tail(forest), limit)
    ELSE IF limit > 0
    THEN Head(forest).replies \o replace_more(Tail(forest), limit - 1)
    ELSE replace_more(Tail(forest), limit)

\* lines 135-136: post.comments.replace_more(limit=0), then
\* post.comments.list(), the replies in source order
CommentList(id) == replace_more(comment_forest(id), 0)

\* whether a text consists of decimal digits only (strings are atomic here,
\* so the test is tabulated for the identifiers of the model)
AllDigits(text) == text \in {"1900000"}

(***************************************************************************)
(* Python values of identifiers: post.id is a str; a CSV column that       *)
(* pandas parsed as numbers holds int64 values.  A str and an int64 never  *)
(* compare equal and never collide in a set.                               *)
(***************************************************************************)
PyStr(text) == [type |-> "str", repr |-> text]

PyInt(text) == [type |-> "int64", repr |-> text]

None == [type |-> "NoneType", repr |-> "None"]

\* bool(value) of a str or None
Truthy(value) == value.type = "str" /\ value.repr # ""

\* what os.getenv gives for a credential: None when the variable is not set,
\* the empty text when it is set to nothing, else its text
EnvValues == {None, PyStr(""), PyStr("set")}

\* the values of a credential that is set
Configured == {PyStr("set")}

all_Any(client_id, client_secret, user_agent) ==
    Truthy(client_id) \/ Truthy(client_secret) \/ Truthy(user_agent)

\* all([client_id, client_secret, user_agent]) (line 104)
all(client_id, client_secret, user_agent) ==
    Truthy(client_id) /\ Truthy(client_secret) /\ Truthy(user_agent)

(***************************************************************************)
(* The CSV files.  A file is absent, or a sequence of lines; a line is the *)
(* record of its cells (the header line holds the column names).           *)
(***************************************************************************)
NoFile == [exists |-> FALSE, lines |-> <<>>]

PostsHeader ==
    [post_id |-> "post_id", subreddit |-> "subreddit", keyword |-> "keyword",
     created_utc |-> "created_utc"]

CommentsHeader ==
    [comment_id |-> "comment_id", post_id |-> "post_id", created_utc |-> "created_utc"]

\* the header row pandas derives from the records of a batch
HeaderOf(data) == IF "keyword" \in DOMAIN data[1] THEN PostsHeader ELSE CommentsHeader

\* df.to_csv(filename, mode='a', header=is_new, index=False)
to_csv(file, data, header) ==
    [exists |-> TRUE,
     lines  |-> file.lines \o (IF header THEN <<HeaderOf(data)>> ELSE <<>>) \o data]

_save_data_AlwaysHeader(data, file) ==
    IF data = <<>> THEN file ELSE to_csv(file, data, TRUE)

\* _save_data(data, filename): the file afterwards
_save_data(data, file) ==
    IF data = <<>> THEN file
    ELSE LET is_new == ~file.exists
         IN  to_csv(file, data, is_new)

\* pd.read_csv(file)['post_id'].unique(): the first line names the columns, the
\* other lines are the rows; a column whose cells are all numbers is parsed as
\* int64, any other column keeps its texts
read_post_id_column(file) ==
    LET rows  == Tail(file.lines)
        cells == {rows[i].post_id : i \in 1..Len(rows)}
    IN  IF cells # {} /\ \A c \in cells : AllDigits(c)
        THEN {PyInt(c) : c \in cells}
        ELSE {PyStr(c) : c \in cells}

\* _load_processed_ids()
_load_processed_ids(file) ==
    IF ~file.exists THEN {}
    ELSE IF file.lines = <<>> THEN {}            \* pd.errors.EmptyDataError
    ELSE read_post_id_column(file)

(***************************************************************************)
(* _fetch_comments(post).  fault = 0: no failure; fault = 1: replace_more  *)
(* or list() raises; fault = j + 1: reading the j-th reply raises.  The    *)
(* result is the list the method returns and whether the handler ran.      *)
(***************************************************************************)
CommentRecord(id, comment) ==
    [comment_id |-> comment.id, post_id |-> id, created_utc |-> Strftime(created_utc(id))]

RECURSIVE FetchLoop_OffByOne(_, _, _, _)
FetchLoop_OffByOne(id, i, comments_data, fault) ==
    LET comment_iterator == CommentList(id)
    IN  IF i >= Len(comment_iterator) THEN [comments |-> comments_data, raised |-> FALSE]
        ELSE IF i > comment_limit_per_post THEN [comments |-> comments_data, raised |-> FALSE]
        ELSE IF fault = i + 2 THEN [comments |-> comments_data, raised |-> TRUE]
        ELSE FetchLoop_OffByOne(id, i + 1,
                 Append(comments_data, CommentRecord(id, comment_iterator[i + 1])),
                 fault)

RECURSIVE FetchLoop(_, _, _, _)
FetchLoop(id, i, comments_data, fault) ==
    LET comment_iterator == CommentList(id)
    IN  IF i >= Len(comment_iterator) THEN [comments |-> comments_data, raised |-> FALSE]
        ELSE IF i >= comment_limit_per_post THEN [comments |-> comments_data, raised |-> FALSE]
        ELSE IF fault = i + 2 THEN [comments |-> comments_data, raised |-> TRUE]
        ELSE FetchLoop(id, i + 1,
                       Append(comments_data, CommentRecord(id, comment_iterator[i + 1])),
                       fault)

_fetch_comments(id, fault) ==
    IF fault = 1 THEN [comments |-> <<>>, raised |-> TRUE]
    ELSE FetchLoop(id, 0, <<>>, fault)

\* the faults that are tried while the replies of a thread are fetched: at
\* replace_more, at the first reply and at the last reply that is read
FetchFaults(id) ==
    LET n == Min(num_replies(id), comment_limit_per_post)
    IN  {1} \cup (IF n >= 1 THEN {2, n + 1} ELSE {})

(***************************************************************************)
(* State.                                                                  *)
(***************************************************************************)
VARIABLES
    pc,                  \* where the process is: "off" (not running), "iter" (in
                         \* the loop over search_results), "save_comments" (the
                         \* thread batch is flushed), "except", "done"
    run,                 \* how many times the program was started
    utcoffset,           \* the local zone of the machine
    processed_post_ids,  \* self.processed_post_ids
    start_timestamp,     \* locals of scrape_data
    end_timestamp,
    si,                  \* position of the loop over CONFIG['subreddits']
    qi,                  \* position of the loop over CONFIG['search_keywords']
    yielded,             \* how many candidates search_results has yielded
    posts_batch,
    comments_batch,
    posts_file,          \* reddit_posts.csv
    comments_file,       \* reddit_comments.csv
    events,              \* the events the environment has contributed so far
    \* history, read by the properties only
    returned,            \* per pair, the identifiers search yielded in this run
    raised,              \* the pairs of this run that ended in the except clause
    prev_returned,       \* the same of the previous run, if it ran to the end
    prev_raised,
    prev_done,
    write_failed,        \* whether a write has failed in this run
    prev_write_failed,
    searched,            \* the pairs this run has entered, in order
    slept,               \* the pairs of this run after which time.sleep(2) ran
    posts_at_start,      \* the lines of the thread file when this run started
    posts_mark,          \* the lines of the two files when this pair started
    comments_mark,
    fetch_raised,        \* the threads of this pair whose comment retrieval raised
    fetched,             \* the threads of this pair _fetch_comments was called for
    last,                \* the last candidate of this pair, whether the registry
                         \* held its identifier when it was yielded, and the
                         \* branch of the loop body that handled it
    saved,               \* per file, the batches _save_data has appended to it
    startup              \* the credentials the last start of the program found, and
                         \* whether praw.Reddit raised

prog == <<pc, run, utcoffset, processed_post_ids, start_timestamp, end_timestamp,
          si, qi, yielded, posts_batch, comments_batch>>

disk == <<posts_file, comments_file>>

env == <<events>>

hist == <<returned, raised, prev_returned, prev_raised, prev_done, write_failed,
          prev_write_failed, searched, slept, posts_at_start, posts_mark,
          comments_mark, fetch_raised, fetched, last>>

vars == <<prog, disk, env, hist, saved, startup>>

NotStarted ==
    [client_id |-> None, client_secret |-> None, user_agent |-> None,
     session_raises |-> FALSE]

NoneReturned == [p \in Pairs |-> <<>>]

NoLast == [id |-> "", known |-> FALSE, why |-> ""]

Init ==
    /\ pc = "off"
    /\ run = 0
    /\ utcoffset \in UtcOffsets
    /\ processed_post_ids = {}
    /\ start_timestamp = 0
    /\ end_timestamp = 0
    /\ si = 1
    /\ qi = 1
    /\ yielded = 0
    /\ posts_batch = <<>>
    /\ comments_batch = <<>>
    /\ posts_file = NoFile
    /\ comments_file = NoFile
    /\ events = 0
    /\ returned = NoneReturned
    /\ raised = {}
    /\ prev_returned = NoneReturned
    /\ prev_raised = {}
    /\ prev_done = FALSE
    /\ write_failed = FALSE
    /\ prev_write_failed = FALSE
    /\ searched = <<>>
    /\ slept = {}
    /\ posts_at_start = 0
    /\ posts_mark = 0
    /\ comments_mark = 0
    /\ fetch_raised = {}
    /\ fetched = {}
    /\ last = NoLast
    /\ saved = [posts |-> <<>>, comments |-> <<>>]
    /\ startup = NotStarted

(***************************************************************************)
(* The head of the loop body (lines 173-186): the batches are emptied and  *)
(* the lazy search is created.                                             *)
(***************************************************************************)
EnterPair(before, s, q) ==
    /\ pc' = "iter"
    /\ si' = s
    /\ qi' = q
    /\ searched' = Append(before, <<s, q>>)
    /\ posts_batch' = <<>>
    /\ comments_batch' = <<>>
    /\ yielded' = 0
    /\ posts_mark' = Len(posts_file'.lines)
    /\ comments_mark' = Len(comments_file'.lines)
    /\ fetch_raised' = {}
    /\ fetched' = {}
    /\ last' = NoLast

(***************************************************************************)
(* The program is started.  __init__ (lines 97-119) reads the credentials  *)
(* and creates the session, and raises when a credential is missing or the *)
(* session cannot be created; else it loads the registry from the thread   *)
(* file, the prologue of scrape_data (156-169) resolves the window, and    *)
(* the first pair is entered.                                              *)
(***************************************************************************)
Start(client_id, client_secret, user_agent, session_raises) ==
    /\ pc \in {"off", "done"}
    \* praw.Reddit is called only when the credentials are there
    /\ session_raises => all(client_id, client_secret, user_agent)
    /\ startup' = [client_id |-> client_id, client_secret |-> client_secret,
                   user_agent |-> user_agent, session_raises |-> session_raises]
    /\ IF ~all(client_id, client_secret, user_agent) \/ session_raises
       THEN \* lines 104-106, 115-117: __init__ raises and the program ends
            /\ events < MaxEvents
            /\ events' = events + 1
            /\ UNCHANGED <<prog, disk, hist, saved>>
       ELSE /\ run > 0 => events < MaxEvents
            /\ events' = IF run > 0 THEN events + 1 ELSE events
            /\ run' = run + 1
            /\ processed_post_ids' = _load_processed_ids(posts_file)
            /\ start_timestamp' = NaiveTimestamp(start_date, utcoffset)
            /\ end_timestamp' = NaiveTimestamp(end_date, utcoffset)
            /\ UNCHANGED <<utcoffset, disk, saved>>
            /\ EnterPair(<<>>, 1, 1)
            /\ prev_write_failed' = write_failed
            /\ write_failed' = FALSE
            /\ prev_done' = (pc = "done")
            /\ prev_returned' = returned
            /\ prev_raised' = raised
            /\ returned' = NoneReturned
            /\ raised' = {}
            /\ slept' = {}
            /\ posts_at_start' = Len(posts_file.lines)

(***************************************************************************)
(* One turn of `for post in search_results` (lines 188-215).               *)
(***************************************************************************)
AlreadyProcessed_Never(id, registry) == FALSE

\* line 189
AlreadyProcessed(id, registry) == PyStr(id) \in registry

OutsideWindow_Exclusive(ts, start, end) == ts <= start \/ ts >= end

\* lines 193-194
OutsideWindow(ts, start, end) == ts < start \/ ts > end

\* lines 197-209
PostRecord(id, subreddit_name, query) ==
    [post_id |-> id, subreddit |-> subreddit_name, keyword |-> query,
     created_utc |-> Strftime(created_utc(id))]

Register_Forget(registry, id) == registry

\* line 215
Register(registry, id) == registry \cup {PyStr(id)}

NextPost(id, fault) ==
    /\ pc = "iter"
    /\ yielded < limit_posts_per_query
    /\ events + (IF fault # 0 THEN 1 ELSE 0) < MaxEvents
    /\ yielded' = yielded + 1
    /\ events' = events + (IF fault # 0 THEN 2 ELSE 1)
    /\ returned' = [returned EXCEPT ![<<si, qi>>] = Append(@, id)]
    /\ IF AlreadyProcessed(id, processed_post_ids)
       THEN \* line 190: continue
            /\ fault = 0
            /\ last' = [id |-> id, known |-> PyStr(id) \in processed_post_ids,
                        why |-> "duplicate"]
            /\ UNCHANGED <<posts_batch, comments_batch, processed_post_ids,
                           fetch_raised, fetched>>
       ELSE IF OutsideWindow(created_utc(id), start_timestamp, end_timestamp)
       THEN \* line 195: continue
            /\ fault = 0
            /\ last' = [id |-> id, known |-> PyStr(id) \in processed_post_ids,
                        why |-> "window"]
            /\ UNCHANGED <<posts_batch, comments_batch, processed_post_ids,
                           fetch_raised, fetched>>
       ELSE LET comments == _fetch_comments(id, fault)
            IN  /\ fault \in {0} \cup FetchFaults(id)
                /\ last' = [id |-> id, known |-> PyStr(id) \in processed_post_ids,
                            why |-> "accepted"]
                /\ posts_batch' =
                       Append(posts_batch, PostRecord(id, subreddits[si], search_keywords[qi]))
                /\ fetched' = fetched \cup {id}
                /\ comments_batch' = comments_batch \o comments.comments
                /\ processed_post_ids' = Register(processed_post_ids, id)
                /\ fetch_raised' = IF comments.raised THEN fetch_raised \cup {id}
                                   ELSE fetch_raised
    /\ UNCHANGED <<pc, run, utcoffset, start_timestamp, end_timestamp, si, qi, disk,
                   raised, prev_returned, prev_raised, prev_done, write_failed,
                   prev_write_failed, searched, slept, posts_at_start,
                   posts_mark, comments_mark, saved, startup>>

\* the search, or the fetch of its next page, raises (lines 182-188, 225)
SearchRaises ==
    /\ pc = "iter"
    /\ events < MaxEvents
    /\ events' = events + 1
    /\ pc' = "except"
    /\ raised' = raised \cup {<<si, qi>>}
    /\ UNCHANGED <<run, utcoffset, processed_post_ids, start_timestamp, end_timestamp,
                   si, qi, yielded, posts_batch, comments_batch, disk,
                   returned, prev_returned, prev_raised, prev_done, write_failed,
                   prev_write_failed, searched, slept, posts_at_start,
                   posts_mark, comments_mark, fetch_raised, fetched, last, saved,
                   startup>>

(***************************************************************************)
(* The end of the loop body: pbar.update(1) and the step of the two for    *)
(* loops (lines 171-172, 228-231), into the next pair or out of the loops. *)
(***************************************************************************)
Advance_FirstSubredditOnly ==
    IF qi < Len(search_keywords)
    THEN EnterPair(searched, si, qi + 1)
    ELSE /\ pc' = "done"
         /\ UNCHANGED <<si, qi, yielded, posts_batch, comments_batch, posts_mark,
                        comments_mark, fetch_raised, fetched, last, searched>>

Advance ==
    IF qi < Len(search_keywords)
    THEN EnterPair(searched, si, qi + 1)
    ELSE IF si < Len(subreddits)
    THEN EnterPair(searched, si + 1, 1)
    ELSE /\ pc' = "done"
         /\ UNCHANGED <<si, qi, yielded, posts_batch, comments_batch, posts_mark,
                        comments_mark, fetch_raised, fetched, last, searched>>

(***************************************************************************)
(* The flush of the pair (lines 217-221).  A write that fails raises       *)
(* before a byte is written (the file cannot be opened).                   *)
(***************************************************************************)
\* search_results is exhausted; the thread batch is written
SavePosts ==
    /\ pc = "iter"
    /\ posts_file' = IF posts_batch # <<>> THEN _save_data(posts_batch, posts_file)
                     ELSE posts_file
    /\ saved' = IF posts_batch # <<>> THEN [saved EXCEPT !.posts = Append(@, posts_batch)]
                ELSE saved
    /\ pc' = "save_comments"
    /\ UNCHANGED <<run, utcoffset, processed_post_ids, start_timestamp, end_timestamp,
                   si, qi, yielded, posts_batch, comments_batch, comments_file, env, hist,
                   startup>>

SavePostsFails_Swallowed ==
    /\ pc = "iter"
    /\ posts_batch # <<>>
    /\ events < MaxEvents
    /\ events' = events + 1
    /\ pc' = "save_comments"
    /\ raised' = raised
    /\ write_failed' = TRUE
    /\ UNCHANGED <<run, utcoffset, processed_post_ids, start_timestamp, end_timestamp,
                   si, qi, yielded, posts_batch, comments_batch, disk,
                   returned, prev_returned, prev_raised, prev_done,
                   prev_write_failed, searched, slept, posts_at_start,
                   posts_mark, comments_mark, fetch_raised, fetched, last, saved,
                   startup>>

\* search_results is exhausted; the write of the thread batch raises
SavePostsFails ==
    /\ pc = "iter"
    /\ posts_batch # <<>>
    /\ events < MaxEvents
    /\ events' = events + 1
    /\ pc' = "except"
    /\ raised' = raised \cup {<<si, qi>>}
    /\ write_failed' = TRUE
    /\ UNCHANGED <<run, utcoffset, processed_post_ids, start_timestamp, end_timestamp,
                   si, qi, yielded, posts_batch, comments_batch, disk,
                   returned, prev_returned, prev_raised, prev_done,
                   prev_write_failed, searched, slept, posts_at_start,
                   posts_mark, comments_mark, fetch_raised, fetched, last, saved,
                   startup>>

\* the comment batch is written; time.sleep(2) (line 223); the end of the body
SaveComments ==
    /\ pc = "save_comments"
    /\ comments_file' = IF comments_batch # <<>>
                        THEN _save_data(comments_batch, comments_file)
                        ELSE comments_file
    /\ saved' = IF comments_batch # <<>>
                THEN [saved EXCEPT !.comments = Append(@, comments_batch)]
                ELSE saved
    /\ UNCHANGED <<run, utcoffset, processed_post_ids, start_timestamp, end_timestamp,
                   posts_file, env, returned, raised, prev_returned, prev_raised,
                   prev_done, write_failed, prev_write_failed, posts_at_start, startup>>
    /\ slept' = slept \cup {<<si, qi>>}
    /\ Advance

SaveCommentsFails ==
    /\ pc = "save_comments"
    /\ comments_batch # <<>>
    /\ events < MaxEvents
    /\ events' = events + 1
    /\ pc' = "except"
    /\ raised' = raised \cup {<<si, qi>>}
    /\ write_failed' = TRUE
    /\ UNCHANGED <<run, utcoffset, processed_post_ids, start_timestamp, end_timestamp,
                   si, qi, yielded, posts_batch, comments_batch, disk,
                   returned, prev_returned, prev_raised, prev_done,
                   prev_write_failed, searched, slept, posts_at_start,
                   posts_mark, comments_mark, fetch_raised, fetched, last, saved,
                   startup>>

\* the except clause (lines 225-226), then the end of the body
Except ==
    /\ pc = "except"
    /\ UNCHANGED <<run, utcoffset, processed_post_ids, start_timestamp, end_timestamp,
                   disk, env, returned, raised, prev_returned, prev_raised,
                   prev_done, write_failed, prev_write_failed, posts_at_start, saved,
                   startup, slept>>
    /\ Advance

(***************************************************************************)
(* The process is killed: what it held in memory is gone, the files stay.  *)
(***************************************************************************)
Crash ==
    /\ pc \in {"iter", "save_comments"}
    /\ events < MaxEvents
    /\ events' = events + 1
    /\ pc' = "off"
    /\ processed_post_ids' = {}
    /\ posts_batch' = <<>>
    /\ comments_batch' = <<>>
    /\ UNCHANGED <<run, utcoffset, start_timestamp, end_timestamp, si, qi, yielded,
                   disk, hist, saved, startup>>

\* the program on a machine whose .env file holds the three credentials
Next ==
    \/ \E client_id \in Configured, client_secret \in Configured, user_agent \in Configured :
           Start(client_id, client_secret, user_agent, FALSE)
    \/ \E id \in PostIds : \E fault \in 0..(comment_limit_per_post + 1) : NextPost(id, fault)
    \/ SearchRaises
    \/ SavePosts
    \/ SavePostsFails
    \/ SaveComments
    \/ SaveCommentsFails
    \/ Except
    \/ Crash

Spec == Init /\ [][Next]_vars

(***************************************************************************)
(* The program on any machine: a credential may be missing or empty, and   *)
(* the creation of the session may raise.                                  *)
(***************************************************************************)
NextStartup ==
    \/ \E client_id \in EnvValues, client_secret \in EnvValues, user_agent \in EnvValues,
          session_raises \in BOOLEAN :
           Start(client_id, client_secret, user_agent, session_raises)
    \/ \E id \in PostIds : \E fault \in 0..(comment_limit_per_post + 1) : NextPost(id, fault)
    \/ SearchRaises
    \/ SavePosts
    \/ SavePostsFails
    \/ SaveComments
    \/ SaveCommentsFails
    \/ Except
    \/ Crash

SpecStartup == Init /\ [][NextStartup]_vars

(***************************************************************************)
(* The program when the process is not killed.  A search yields finitely   *)
(* many candidates, so the loop over search_results ends and the flush is  *)
(* reached; the statements after it and the except clause always run on.   *)
(***************************************************************************)
NextRun ==
    \/ \E client_id \in Configured, client_secret \in Configured, user_agent \in Configured :
           Start(client_id, client_secret, user_agent, FALSE)
    \/ \E id \in PostIds : \E fault \in 0..(comment_limit_per_post + 1) : NextPost(id, fault)
    \/ SearchRaises
    \/ SavePosts
    \/ SavePostsFails
    \/ SaveComments
    \/ SaveCommentsFails
    \/ Except

SpecRun ==
    Init /\ [][NextRun]_vars
         /\ WF_vars(SavePosts) /\ WF_vars(SaveComments) /\ WF_vars(Except)

(***************************************************************************)
(* The program from the moment a second run has started, after a first run *)
(* on an empty directory that accepted one thread of the window in its     *)
(* first pair and was killed before the flush: the files are absent and    *)
(* the registry the second run loaded is empty.                            *)
(***************************************************************************)
InitRetry ==
    /\ pc = "iter"
    /\ run = 2
    /\ utcoffset \in UtcOffsets
    /\ processed_post_ids = _load_processed_ids(NoFile)
    /\ start_timestamp = NaiveTimestamp(start_date, utcoffset)
    /\ end_timestamp = NaiveTimestamp(end_date, utcoffset)
    /\ si = 1
    /\ qi = 1
    /\ yielded = 0
    /\ posts_batch = <<>>
    /\ comments_batch = <<>>
    /\ posts_file = NoFile
    /\ comments_file = NoFile
    /\ events = 0
    /\ returned = NoneReturned
    /\ raised = {}
    /\ \E id \in {"1900000", "1dxk3ab"} :
           prev_returned = [NoneReturned EXCEPT ![<<1, 1>>] = <<id>>]
    /\ prev_raised = {}
    /\ prev_done = FALSE
    /\ write_failed = FALSE
    /\ prev_write_failed = FALSE
    /\ searched = << <<1, 1>> >>
    /\ slept = {}
    /\ posts_at_start = 0
    /\ posts_mark = 0
    /\ comments_mark = 0
    /\ fetch_raised = {}
    /\ fetched = {}
    /\ last = NoLast
    /\ saved = [posts |-> <<>>, comments |-> <<>>]
    /\ startup = [client_id |-> PyStr("set"), client_secret |-> PyStr("set"),
                  user_agent |-> PyStr("set"), session_raises |-> FALSE]

SpecRetry == InitRetry /\ [][Next]_vars

(***************************************************************************)
(* The persistence layer on its own: _save_data is called with arbitrary   *)
(* batches, empty ones among them, on files that start absent.             *)
(***************************************************************************)
SampleThreadRows ==
    {PostRecord(id, subreddits[1], search_keywords[1]) : id \in {"1900000", "1dxk3ab"}}

ThreadBatches ==
    {<<>>} \cup {<<r>> : r \in SampleThreadRows}
           \cup {<<r1, r2>> : r1 \in SampleThreadRows, r2 \in SampleThreadRows}

CommentBatches == {<<>>, _fetch_comments("1dxk3ab", 0).comments}

AppendThreads(data) ==
    /\ events < MaxEvents
    /\ events' = events + 1
    /\ posts_file' = _save_data(data, posts_file)
    /\ saved' = [saved EXCEPT !.posts = Append(@, data)]
    /\ UNCHANGED <<prog, comments_file, hist, startup>>

AppendComments(data) ==
    /\ events < MaxEvents
    /\ events' = events + 1
    /\ comments_file' = _save_data(data, comments_file)
    /\ saved' = [saved EXCEPT !.comments = Append(@, data)]
    /\ UNCHANGED <<prog, posts_file, hist, startup>>

NextSave ==
    \/ \E data \in ThreadBatches : AppendThreads(data)
    \/ \E data \in CommentBatches : AppendComments(data)

SpecSave == Init /\ [][NextSave]_vars

(***************************************************************************)
(* What the properties read off the state.                                 *)
(***************************************************************************)
\* the data rows of a file (its lines after the first)
Rows(file) == IF file.lines = <<>> THEN <<>> ELSE Tail(file.lines)

\* the positions of the thread file's rows that hold an identifier
RowsOf(id) == {i \in 1..Len(Rows(posts_file)) : Rows(posts_file)[i].post_id = id}

\* the lines this run has appended to the thread file
AppendedThisRun ==
    SubSeq(posts_file.lines, posts_at_start + 1, Len(posts_file.lines))

InWindow(id) == start_timestamp <= created_utc(id) /\ created_utc(id) <= end_timestamp

Range(seq) == {seq[i] : i \in 1..Len(seq)}

(***************************************************************************)
(* C1.  No thread identifier appears in more than one row of the thread    *)
(* file, in any state, over any sequence of runs, pair failures and        *)
(* crashes.                                                                *)
(***************************************************************************)
C1_UniqueThreadIds == \A id \in PostIds : Cardinality(RowsOf(id)) <= 1

(***************************************************************************)
(* C2.  Idempotence: a run that follows a completed run, in which every    *)
(* pair yields the candidates it yielded in that run and ends as it ended  *)
(* there, appends no line to the thread file.                              *)
(***************************************************************************)
SameAsPreviousRun ==
    /\ pc = "done"
    /\ prev_done
    /\ returned = prev_returned
    /\ raised = prev_raised
    /\ ~write_failed
    /\ ~prev_write_failed

C2_SecondRunAppendsNothing == SameAsPreviousRun => AppendedThisRun = <<>>

(***************************************************************************)
(* C3.  Dedup across pairs: when a run is over, a thread in the window     *)
(* that two or more pairs of the run returned (and that was not in the     *)
(* file when the run started) has exactly one row, and the row's keyword   *)
(* is the query of the first pair that returned it.                        *)
(***************************************************************************)
PairsReturning(id) == {p \in Pairs : id \in Range(returned[p])}

InFileAtStart(id) == \E i \in 1..posts_at_start : posts_file.lines[i].post_id = id

AppendedRowsOf(id) ==
    {i \in (posts_at_start + 1)..Len(posts_file.lines) : posts_file.lines[i].post_id = id}

\* p comes before q in the order of the two for loops
Before(p, q) == p[1] < q[1] \/ (p[1] = q[1] /\ p[2] <= q[2])

FirstPair(id) == CHOOSE p \in PairsReturning(id) : \A q \in PairsReturning(id) : Before(p, q)

C3_PersistedExactlyOnce ==
    pc = "done" =>
        \A id \in PostIds :
            (InWindow(id) /\ Cardinality(PairsReturning(id)) >= 2 /\ ~InFileAtStart(id))
            => /\ Cardinality(AppendedRowsOf(id)) = 1
               /\ \A i \in AppendedRowsOf(id) :
                      posts_file.lines[i].keyword = search_keywords[FirstPair(id)[2]]

(***************************************************************************)
(* C5.  Partial-failure isolation: when a run is over in which pairs       *)
(* raised during the search (and no write failed), every pair has been     *)
(* searched, and every thread in the window that a pair which did not      *)
(* raise returned, and that was not in the file at the start, has a row.   *)
(***************************************************************************)
C5_OtherPairsPersisted ==
    (pc = "done" /\ raised # {} /\ ~write_failed) =>
        /\ Range(searched) = Pairs
        /\ \A p \in Pairs \ raised : \A id \in Range(returned[p]) :
               (InWindow(id) /\ ~InFileAtStart(id)) => RowsOf(id) # {}

(***************************************************************************)
(* C4.  Local window re-validation: every row a run has written holds an   *)
(* instant inside the closed window the run resolved, and a candidate the  *)
(* registry did not hold is accepted exactly if its instant is inside.     *)
(* On a machine at UTC the window is [2024-01-04 00:00:00, 2024-08-04      *)
(* 00:00:00]: the thread of 2023-12-31 and the thread of 2024-08-04        *)
(* 00:00:01 are outside, the thread of 2024-01-04 00:00:00 is inside.      *)
(***************************************************************************)
\* the instant a 'YYYY-MM-DD HH:MM:SS' text names
InstantOf(text) ==
    DaysFromCivil(text[1], text[2], text[3]) * 86400 + text[4] * 3600 + text[5] * 60 + text[6]

\* whether the candidate yielded last was appended to the thread batch
LastAccepted ==
    posts_batch # <<>> /\ posts_batch[Len(posts_batch)].post_id = last.id

C4_WindowRevalidation ==
    /\ \A i \in (posts_at_start + 1)..Len(posts_file.lines) :
           posts_file.lines[i] # PostsHeader =>
               /\ start_timestamp <= InstantOf(posts_file.lines[i].created_utc)
               /\ InstantOf(posts_file.lines[i].created_utc) <= end_timestamp
    /\ (pc = "iter" /\ last.id # "" /\ ~last.known) => (LastAccepted <=> InWindow(last.id))
    /\ (pc = "iter" /\ start_timestamp = 1704326400 /\ end_timestamp = 1722729600
        /\ ~last.known)
       => /\ last.id \in {"18uv9qz", "1ejz0aa"} => ~LastAccepted
          /\ last.id = "1900000" => LastAccepted

\* the three threads of the example were yielded to one search on a machine
\* at UTC, and only the one at the start of the window is in the batch
C4_Witness ==
    /\ pc = "iter"
    /\ start_timestamp = 1704326400
    /\ end_timestamp = 1722729600
    /\ returned[<<si, qi>>] = <<"18uv9qz", "1900000", "1ejz0aa">>
    /\ Len(posts_batch) = 1
    /\ posts_batch[1].created_utc = <<2024, 1, 4, 0, 0, 0>>

(***************************************************************************)
(* C6.  Per-pair all-or-nothing persistence: whenever a pair has raised,   *)
(* either all thread rows and comment rows of the pair are in the files or *)
(* none of them is.                                                        *)
(***************************************************************************)
\* the data rows a file has gained since a mark
RowsSince(file, mark, header) ==
    SelectSeq(SubSeq(file.lines, mark + 1, Len(file.lines)), LAMBDA line : line # header)

C6_AllOrNothing ==
    pc = "except" =>
        LET posts    == RowsSince(posts_file, posts_mark, PostsHeader)
            comments == RowsSince(comments_file, comments_mark, CommentsHeader)
        IN  \/ posts = posts_batch /\ comments = comments_batch
            \/ posts = <<>> /\ comments = <<>>

(***************************************************************************)
(* C7.  Comment-harvest failure policy: a thread whose comment retrieval   *)
(* raised, at whatever point, contributes no comment record to the pair's  *)
(* comment batch.                                                          *)
(***************************************************************************)
CommentsOf(id) == SelectSeq(comments_batch, LAMBDA c : c.post_id = id)

C7_FailedFetchYieldsNothing ==
    pc = "iter" => \A id \in fetch_raised : CommentsOf(id) = <<>>

(***************************************************************************)
(* C8.  The thread batch is independent of comment harvesting: a thread    *)
(* whose comment retrieval raised is registered and in the pair's thread   *)
(* batch, and once the pair's thread batch is flushed its row is in the    *)
(* thread file.                                                            *)
(***************************************************************************)
C8_ThreadsKeptWhenFetchFails ==
    /\ pc \in {"iter", "save_comments"} =>
           \A id \in fetch_raised :
               /\ PyStr(id) \in processed_post_ids
               /\ \E i \in 1..Len(posts_batch) : posts_batch[i].post_id = id
    /\ pc = "save_comments" =>
           /\ RowsSince(posts_file, posts_mark, PostsHeader) = posts_batch
           /\ \A id \in fetch_raised :
                  \E i \in (posts_mark + 1)..Len(posts_file.lines) :
                      posts_file.lines[i].post_id = id

\* comment retrieval raised for every thread of a flushed pair
C8_Witness ==
    /\ pc = "save_comments"
    /\ fetch_raised # {}
    /\ fetch_raised = {posts_batch[i].post_id : i \in 1..Len(posts_batch)}
    /\ Len(posts_file.lines) > posts_mark

(***************************************************************************)
(* C9.  Reply ceiling: a comment retrieval that did not raise, for a       *)
(* thread with k replies, yields the first min(k, N) replies, in source    *)
(* order, N being the configured ceiling.                                  *)
(***************************************************************************)
FirstReplies(id) ==
    [i \in 1..Min(num_replies(id), comment_limit_per_post) |->
        CommentRecord(id, CommentList(id)[i])]

C9_ReplyCeiling ==
    pc \in {"iter", "save_comments", "except"} =>
        \A j \in 1..Len(posts_batch) :
            posts_batch[j].post_id \notin fetch_raised =>
                /\ CommentsOf(posts_batch[j].post_id) = FirstReplies(posts_batch[j].post_id)
                /\ Len(CommentsOf(posts_batch[j].post_id))
                       = Min(num_replies(posts_batch[j].post_id), comment_limit_per_post)

\* a thread with more replies than the ceiling was harvested without a failure
C9_Witness ==
    /\ pc = "iter"
    /\ \E j \in 1..Len(posts_batch) :
           /\ posts_batch[j].post_id \notin fetch_raised
           /\ num_replies(posts_batch[j].post_id) > comment_limit_per_post
           /\ Len(CommentsOf(posts_batch[j].post_id)) = comment_limit_per_post
           /\ CommentsOf(posts_batch[j].post_id)[comment_limit_per_post].comment_id
                  = <<posts_batch[j].post_id, comment_limit_per_post>>

(***************************************************************************)
(* C10.  Header-once append: a file that started absent and was appended   *)
(* to any number of times is absent if every batch was empty, and else is  *)
(* one header line followed by the rows of the batches in arrival order.   *)
(***************************************************************************)
RECURSIVE Flatten(_)
Flatten(batches) ==
    IF batches = <<>> THEN <<>> ELSE Head(batches) \o Flatten(Tail(batches))

HeaderOnce(file, batches, header) ==
    IF Flatten(batches) = <<>> THEN file = NoFile
    ELSE file.exists /\ file.lines = <<header>> \o Flatten(batches)

C10_HeaderOnce ==
    /\ HeaderOnce(posts_file, saved.posts, PostsHeader)
    /\ HeaderOnce(comments_file, saved.comments, CommentsHeader)

\* two non-empty batches and an empty one between them were appended
C10_Witness ==
    /\ Len(saved.posts) = 3
    /\ saved.posts[1] # <<>>
    /\ saved.posts[2] = <<>>
    /\ saved.posts[3] # <<>>
    /\ Len(posts_file.lines) = 1 + Len(saved.posts[1]) + Len(saved.posts[3])

(***************************************************************************)
(* C11.  Termination: a run that has started and is not killed reaches the *)
(* end of scrape_data, whichever pairs raise; and at the end every pair of *)
(* the cross product has been entered exactly once, subreddit by           *)
(* subreddit, and within a subreddit keyword by keyword.                   *)
(***************************************************************************)
PairOrder ==
    [k \in 1..(Len(subreddits) * Len(search_keywords)) |->
        << ((k - 1) \div Len(search_keywords)) + 1, ((k - 1) % Len(search_keywords)) + 1 >>]

C11_Termination ==
    /\ [](pc = "done" => searched = PairOrder)
    /\ (pc \in {"iter", "save_comments", "except"}) ~> (pc = "done")

\* a run is over in which two pairs or more ended in the except clause
C11_Witness ==
    /\ pc = "done"
    /\ Cardinality(raised) >= 2
    /\ searched = PairOrder

(***************************************************************************)
(* C12.  Time Window Resolver: in every run, on every machine, the window  *)
(* is the anchor date moved back five months and forward two months, each  *)
(* at midnight UTC: [2024-01-04 00:00:00 UTC, 2024-08-04 00:00:00 UTC].    *)
(***************************************************************************)
C12_WindowAtMidnightUTC ==
    run > 0 =>
        /\ start_timestamp = DaysFromCivil(2024, 1, 4) * 86400
        /\ end_timestamp = DaysFromCivil(2024, 8, 4) * 86400
        /\ Strftime(start_timestamp) = <<2024, 1, 4, 0, 0, 0>>
        /\ Strftime(end_timestamp) = <<2024, 8, 4, 0, 0, 0>>

(***************************************************************************)
(* C13.  Retry on the next run: a thread of the window that the previous   *)
(* run accepted and never wrote is not in the registry the next run loads, *)
(* and when the next run is over it has a row if a pair of that run which  *)
(* did not raise returned it.                                              *)
(***************************************************************************)
\* yielded in the previous run, inside the window, and not in the file when
\* this run started: the previous run accepted it and never wrote its row
LostInPreviousRun(id) ==
    /\ run >= 2
    /\ InWindow(id)
    /\ \E p \in Pairs : id \in Range(prev_returned[p])
    /\ ~InFileAtStart(id)

C13_RetriedOnNextRun ==
    \A id \in PostIds :
        LostInPreviousRun(id) =>
            /\ (pc # "off" /\ PyStr(id) \in processed_post_ids)
                   => \E p \in Pairs : id \in Range(returned[p])
            /\ (pc = "done" /\ \E p \in Pairs \ raised : id \in Range(returned[p]))
                   => RowsOf(id) # {}

(***************************************************************************)
(* C14.  Fail-fast startup: a start of the program that finds a credential *)
(* absent, or whose session cannot be created, ends before the registry is *)
(* loaded: no pair is entered, no search is issued, and the two output     *)
(* files are as they were.                                                 *)
(***************************************************************************)
StartupFails(s) ==
    \/ s.client_id \in {None, PyStr("")}
    \/ s.client_secret \in {None, PyStr("")}
    \/ s.user_agent \in {None, PyStr("")}
    \/ s.session_raises

C14_FailFast ==
    [][(pc \in {"off", "done"} /\ StartupFails(startup'))
          => /\ pc' = pc
             /\ processed_post_ids' = processed_post_ids
             /\ run' = run
             /\ searched' = searched
             /\ returned' = returned
             /\ posts_file' = posts_file
             /\ comments_file' = comments_file]_vars

\* a start failed on a missing credential while the thread file held rows
\* that the registry in memory did not
C14_Witness ==
    /\ pc = "off"
    /\ run > 0
    /\ startup.client_secret = None
    /\ Truthy(startup.client_id)
    /\ Len(posts_file.lines) > 1
    /\ processed_post_ids = {}

(***************************************************************************)
(* C15.  Ordering of registration and flush: when a candidate has been     *)
(* handled, every thread of the pair's thread batch is in the registry, so *)
(* it is there before the next candidate is examined and before the write  *)
(* that persists its row; and when the next pair is entered after the      *)
(* flush, the rows of both batches of the pair are in the files.           *)
(***************************************************************************)
BatchRegistered(batch, registry) ==
    \A i \in 1..Len(batch) : PyStr(batch[i].post_id) \in registry

C15_RegisteredBeforeWritten ==
    [][/\ pc' \in {"iter", "save_comments", "except"}
          => BatchRegistered(posts_batch', processed_post_ids')
       /\ posts_file' # posts_file
          => /\ BatchRegistered(posts_batch, processed_post_ids)
             /\ \A i \in (Len(posts_file.lines) + 1)..Len(posts_file'.lines) :
                    posts_file'.lines[i] # PostsHeader
                        => PyStr(posts_file'.lines[i].post_id) \in processed_post_ids
       /\ (pc = "save_comments" /\ searched' # searched)
          => /\ RowsSince(posts_file', posts_mark, PostsHeader) = posts_batch
             /\ RowsSince(comments_file', comments_mark, CommentsHeader) = comments_batch
             /\ posts_batch' = <<>>
             /\ yielded' = 0]_vars

\* the second pair of a run was entered after a pair that accepted two
\* threads and wrote rows to both files
C15_Witness ==
    /\ pc = "iter"
    /\ Len(searched) = 2
    /\ Cardinality(Range(returned[<<1, 1>>])) = 2
    /\ Len(posts_file.lines) = posts_at_start + 3
    /\ Len(comments_file.lines) > 1
    /\ yielded = 0

(***************************************************************************)
(* C16.  Inter-pair throttle: when a pair is entered, time.sleep(2) has    *)
(* run after every pair of the run that was entered before it, the pairs   *)
(* that ended in the except clause included.                               *)
(***************************************************************************)
C16_SleepBetweenPairs ==
    pc \in {"iter", "save_comments", "except", "done"} =>
        \A k \in 1..(Len(searched) - 1) : searched[k] \in slept

(***************************************************************************)
(* C17.  Skipped candidates have no effect: a turn of the loop over        *)
(* search_results for a candidate whose identifier the registry holds, or  *)
(* whose instant is outside the window, changes neither batch nor the      *)
(* registry and does not call _fetch_comments; a candidate the registry    *)
(* holds leaves the loop body at the duplicate check, whatever its         *)
(* instant.                                                                *)
(***************************************************************************)
C17_SkippedHasNoEffect ==
    [][(pc = "iter" /\ yielded' = yielded + 1
           /\ (PyStr(last'.id) \in processed_post_ids \/ ~InWindow(last'.id)))
          => /\ posts_batch' = posts_batch
             /\ comments_batch' = comments_batch
             /\ processed_post_ids' = processed_post_ids
             /\ fetched' = fetched
             /\ fetch_raised' = fetch_raised
             /\ last'.why = IF PyStr(last'.id) \in processed_post_ids
                            THEN "duplicate" ELSE "window"]_vars

\* a pair with a thread in its batch has skipped a duplicate that has
\* replies, and another pair has skipped a thread outside the window
C17_Witness ==
    /\ pc = "iter"
    /\ last.why = "duplicate"
    /\ num_replies(last.id) > 0
    /\ posts_batch # <<>>
    /\ \E p \in Pairs : \E i \in 1..Len(returned[p]) : ~InWindow(returned[p][i])

(***************************************************************************)
(* C18.  Full expansion before truncation: a comment retrieval that did    *)
(* not raise yields the first N replies of the complete reply list of the  *)
(* thread, in which every "load more replies" placeholder is replaced by   *)
(* the replies it stands for.                                              *)
(***************************************************************************)
\* the reply list with every placeholder replaced
CompleteList(id) == replace_more(comment_forest(id), Len(comment_forest(id)))

C18_ExpandedBeforeTruncation ==
    pc \in {"iter", "save_comments", "except"} =>
        \A j \in 1..Len(posts_batch) :
            posts_batch[j].post_id \notin fetch_raised =>
                CommentsOf(posts_batch[j].post_id)
                    = [i \in 1..Min(Len(CompleteList(posts_batch[j].post_id)),
                                    comment_limit_per_post) |->
                          CommentRecord(posts_batch[j].post_id,
                                        CompleteList(posts_batch[j].post_id)[i])]

(***************************************************************************)
(* C19.  Referential integrity of the comment file: in every state, also   *)
(* after a write that failed and after a kill between the two writes of a  *)
(* pair, every row of the comment file names a thread that has a row in    *)
(* the thread file.                                                        *)
(***************************************************************************)
C19_CommentsReferToThreads ==
    \A i \in 1..Len(Rows(comments_file)) :
        \E j \in 1..Len(Rows(posts_file)) :
            Rows(posts_file)[j].post_id = Rows(comments_file)[i].post_id

\* the comment file holds rows of an earlier pair, and the comment write of
\* this pair failed after its thread rows were written
C19_Witness ==
    /\ pc = "except"
    /\ write_failed
    /\ Len(Rows(comments_file)) > 0
    /\ posts_batch # <<>>
    /\ RowsSince(posts_file, posts_mark, PostsHeader) = posts_batch

(***************************************************************************)
(* C20.  Comments are written at most once per thread: over any sequence   *)
(* of runs, pair failures and kills, no comment identifier appears in two  *)
(* rows of the comment file (the remote source gives distinct comments     *)
(* distinct identifiers).                                                  *)
(***************************************************************************)
C20_UniqueCommentIds ==
    \A i \in 1..Len(Rows(comments_file)) : \A j \in 1..Len(Rows(comments_file)) :
        Rows(comments_file)[i].comment_id = Rows(comments_file)[j].comment_id => i = j

====
